---- MODULE Spec2Model ----
(***************************************************************************)
(* Model of the two ntex examples:                                         *)
(*   state/src/main.rs      - the `index` handler over three counters      *)
(*                            (Mutex<usize>, per-worker Cell<u32>,         *)
(*                            AtomicUsize), run by several workers;        *)
(*   middleware/src/simple.rs - SayHiMiddleware wrapping an inner service. *)
(* The two programs are independent; StateSpec and MwSpec are their        *)
(* specifications over the shared variable tuple.                          *)
(***************************************************************************)
EXTENDS Integers, Sequences, FiniteSets

VARIABLES counter1, holder, counter2, counter3, pc, cur, rd, accepted,
          handled, overlapped, responses,
          inv, innerCalls, log, trace, readiness

stateVars == <<counter1, holder, counter2, counter3, pc, cur, rd, accepted,
               handled, overlapped, responses>>
mwVars == <<inv, innerCalls, log, trace, readiness>>
vars == <<counter1, holder, counter2, counter3, pc, cur, rd, accepted,
          handled, overlapped, responses,
          inv, innerCalls, log, trace, readiness>>

(* ---------------------------- bounds ----------------------------------- *)
NumWorkers == 2
MaxRequests == 3
MaxCalls == 2

Workers == 1..NumWorkers
NoWorker == 0
NoRequest == 0

(* usize `+= 1` and AtomicUsize::fetch_add(1).  The counters wrap at 2^64  *)
(* (usize) and 2^32 (u32); every run explored here makes at most           *)
(* MaxRequests increments, so no sum ever reaches the width and the        *)
(* reduction modulo the width is the identity on all values that occur.    *)
UsizeAdd(a, b) == a + b
(* Variant: the sum is computed and dropped (`get() + 1` without `set`).   *)
U32Add_Dropped(a, b) == a

(* Cell<u32>: `counter2.get() + 1`.                                        *)
U32Add(a, b) == a + b

(* ============================ state example ============================ *)

NoRead == [m |-> 0, l |-> 0, a |-> 0]

(* main: counter1 = Mutex::new(0), counter3 = AtomicUsize::new(0); the     *)
(* factory closure has run once per worker and built counter2 = Cell(0).   *)
StateInit ==
    /\ counter1 = 0
    /\ holder = NoWorker
    /\ counter3 = 0
    /\ counter2 = [w \in Workers |-> 0]
    /\ pc = [w \in Workers |-> "idle"]
    /\ cur = [w \in Workers |-> NoRequest]
    /\ rd = [w \in Workers |-> NoRead]
    /\ accepted = 0
    /\ handled = [w \in Workers |-> 0]
    /\ overlapped = {}
    /\ responses = <<>>

(* The server hands the next request to an idle worker; `index` has no     *)
(* await point, so a worker runs one handler call at a time.               *)
Dispatch(w) ==
    /\ pc[w] = "idle"
    /\ accepted < MaxRequests
    /\ accepted' = accepted + 1
    /\ cur' = [cur EXCEPT ![w] = accepted + 1]
    /\ handled' = [handled EXCEPT ![w] = @ + 1]
    /\ overlapped' =
          IF \E v \in Workers : pc[v] # "idle"
          THEN overlapped \cup {accepted + 1} \cup
               {cur[v] : v \in {u \in Workers : pc[u] # "idle"}}
          ELSE overlapped
    /\ pc' = [pc EXCEPT ![w] = "lock1"]
    /\ rd' = [rd EXCEPT ![w] = NoRead]
    /\ UNCHANGED <<counter1, holder, counter2, counter3, responses>>

(* counter1.lock().unwrap() of line 38: blocks until the mutex is free.    *)
Lock1(w) ==
    /\ pc[w] = "lock1"
    /\ holder = NoWorker
    /\ holder' = w
    /\ pc' = [pc EXCEPT ![w] = "inc1"]
    /\ UNCHANGED <<counter1, counter2, counter3, cur, rd, accepted, handled,
                   overlapped, responses>>

(* Variant: the guard is bound to a variable and outlives line 38.         *)
Inc1_KeepGuard(w) ==
    /\ pc[w] = "inc1"
    /\ holder = w
    /\ counter1' = UsizeAdd(counter1, 1)
    /\ pc' = [pc EXCEPT ![w] = "set2"]
    /\ UNCHANGED <<holder, counter2, counter3, cur, rd, accepted, handled,
                   overlapped, responses>>

(* `*guard += 1;` the temporary guard is dropped at the end of line 38.    *)
Inc1(w) ==
    /\ pc[w] = "inc1"
    /\ holder = w
    /\ counter1' = UsizeAdd(counter1, 1)
    /\ holder' = NoWorker
    /\ pc' = [pc EXCEPT ![w] = "set2"]
    /\ UNCHANGED <<counter2, counter3, cur, rd, accepted, handled,
                   overlapped, responses>>

(* Variant: the Cell is rebuilt for every request instead of once per      *)
(* worker.                                                                 *)
Set2_Fresh(w) ==
    /\ pc[w] = "set2"
    /\ counter2' = [counter2 EXCEPT ![w] = 1]
    /\ pc' = [pc EXCEPT ![w] = "add3"]
    /\ UNCHANGED <<counter1, holder, counter3, cur, rd, accepted, handled,
                   overlapped, responses>>

(* Variant: one Cell shared by all workers.                                *)
Set2_Shared(w) ==
    /\ pc[w] = "set2"
    /\ counter2' = [v \in Workers |-> U32Add(counter2[v], 1)]
    /\ pc' = [pc EXCEPT ![w] = "add3"]
    /\ UNCHANGED <<counter1, holder, counter3, cur, rd, accepted, handled,
                   overlapped, responses>>

(* counter2.set(counter2.get() + 1) on the worker's own Cell.              *)
Set2(w) ==
    /\ pc[w] = "set2"
    /\ counter2' = [counter2 EXCEPT ![w] = U32Add(counter2[w], 1)]
    /\ pc' = [pc EXCEPT ![w] = "add3"]
    /\ UNCHANGED <<counter1, holder, counter3, cur, rd, accepted, handled,
                   overlapped, responses>>

(* Variant: `store` of the worker's own count instead of `fetch_add`.      *)
FetchAdd3_Store(w) ==
    /\ pc[w] = "add3"
    /\ counter3' = counter2[w]
    /\ pc' = [pc EXCEPT ![w] = "lock2"]
    /\ UNCHANGED <<counter1, holder, counter2, cur, rd, accepted, handled,
                   overlapped, responses>>

(* counter3.fetch_add(1, SeqCst): one atomic read-modify-write.            *)
FetchAdd3(w) ==
    /\ pc[w] = "add3"
    /\ counter3' = UsizeAdd(counter3, 1)
    /\ pc' = [pc EXCEPT ![w] = "lock2"]
    /\ UNCHANGED <<counter1, holder, counter2, cur, rd, accepted, handled,
                   overlapped, responses>>

(* counter1.lock().unwrap() of line 44.                                    *)
Lock2(w) ==
    /\ pc[w] = "lock2"
    /\ holder = NoWorker
    /\ holder' = w
    /\ pc' = [pc EXCEPT ![w] = "read1"]
    /\ UNCHANGED <<counter1, counter2, counter3, cur, rd, accepted, handled,
                   overlapped, responses>>

(* `*guard` of line 44; the guard is a temporary of the `let body = ...;`  *)
(* statement and lives until the end of that statement.                    *)
Read1(w) ==
    /\ pc[w] = "read1"
    /\ holder = w
    /\ rd' = [rd EXCEPT ![w].m = counter1]
    /\ pc' = [pc EXCEPT ![w] = "get2"]
    /\ UNCHANGED <<counter1, holder, counter2, counter3, cur, accepted,
                   handled, overlapped, responses>>

(* counter2.get() of line 45.                                              *)
Get2(w) ==
    /\ pc[w] = "get2"
    /\ rd' = [rd EXCEPT ![w].l = counter2[w]]
    /\ pc' = [pc EXCEPT ![w] = "load3"]
    /\ UNCHANGED <<counter1, holder, counter2, counter3, cur, accepted,
                   handled, overlapped, responses>>

(* Variant: the third value printed is the local counter again.           *)
Load3_Local(w) ==
    /\ pc[w] = "load3"
    /\ rd' = [rd EXCEPT ![w].a = counter2[w]]
    /\ pc' = [pc EXCEPT ![w] = "format"]
    /\ UNCHANGED <<counter1, holder, counter2, counter3, cur, accepted,
                   handled, overlapped, responses>>

(* counter3.load(SeqCst) of line 46.                                       *)
Load3(w) ==
    /\ pc[w] = "load3"
    /\ rd' = [rd EXCEPT ![w].a = counter3]
    /\ pc' = [pc EXCEPT ![w] = "format"]
    /\ UNCHANGED <<counter1, holder, counter2, counter3, cur, accepted,
                   handled, overlapped, responses>>

(* End of the `let body = format!(..);` statement: the body is built and   *)
(* the guard taken on line 44 is dropped.                                  *)
Format(w) ==
    /\ pc[w] = "format"
    /\ holder = w
    /\ holder' = NoWorker
    /\ pc' = [pc EXCEPT ![w] = "respond"]
    /\ UNCHANGED <<counter1, counter2, counter3, cur, rd, accepted, handled,
                   overlapped, responses>>

(* HttpResponse::Ok().body(body): the request is complete.                 *)
Respond(w) ==
    /\ pc[w] = "respond"
    /\ responses' = Append(responses,
                       [req |-> cur[w], worker |-> w,
                        m |-> rd[w].m, l |-> rd[w].l, a |-> rd[w].a])
    /\ pc' = [pc EXCEPT ![w] = "idle"]
    /\ cur' = [cur EXCEPT ![w] = NoRequest]
    /\ UNCHANGED <<counter1, holder, counter2, counter3, rd, accepted,
                   handled, overlapped>>

StateNext ==
    \/ \E w \in Workers : Dispatch(w) /\ UNCHANGED mwVars
    \/ \E w \in Workers : Lock1(w) /\ UNCHANGED mwVars
    \/ \E w \in Workers : Inc1(w) /\ UNCHANGED mwVars
    \/ \E w \in Workers : Set2(w) /\ UNCHANGED mwVars
    \/ \E w \in Workers : FetchAdd3(w) /\ UNCHANGED mwVars
    \/ \E w \in Workers : Lock2(w) /\ UNCHANGED mwVars
    \/ \E w \in Workers : Read1(w) /\ UNCHANGED mwVars
    \/ \E w \in Workers : Get2(w) /\ UNCHANGED mwVars
    \/ \E w \in Workers : Load3(w) /\ UNCHANGED mwVars
    \/ \E w \in Workers : Format(w) /\ UNCHANGED mwVars
    \/ \E w \in Workers : Respond(w) /\ UNCHANGED mwVars

RECURSIVE SumLocal(_)
(* Sum of the thread-local counters of the workers 1..n.                   *)
SumLocal(n) == IF n = 0 THEN 0 ELSE counter2[n] + SumLocal(n - 1)

Quiescent == \A w \in Workers : pc[w] = "idle"

(* Number of the first k responses that worker w produced.                 *)
ServedBy(w, k) == Cardinality({j \in 1..k : responses[j].worker = w})

(* ------------------------- claims: state example ----------------------- *)

(* C1: once all N accepted requests have completed, whatever the number of *)
(* workers and the interleaving of their steps, the mutex counter and the  *)
(* atomic counter both equal N: no increment is lost.                      *)
C1_NoLostIncrement ==
    Quiescent =>
        /\ Len(responses) = accepted
        /\ counter1 = accepted
        /\ counter3 = accepted

(* All requests done, spread over more than one worker, with overlap.      *)
C1_Witness ==
    /\ Quiescent
    /\ accepted = MaxRequests
    /\ overlapped # {}
    /\ \A w \in Workers : handled[w] >= 1

(* C2: a worker that has handled N requests one after another has a        *)
(* thread-local counter of N once idle, and its Nth response reports the   *)
(* local counter N.                                                        *)
C2_LocalCountsOwnRequests ==
    /\ \A w \in Workers : pc[w] = "idle" => counter2[w] = handled[w]
    /\ \A k \in 1..Len(responses) :
          responses[k].l = ServedBy(responses[k].worker, k)

(* One worker served every request; the last response reports N.           *)
C2_Witness ==
    /\ Quiescent
    /\ Len(responses) = MaxRequests
    /\ \E w \in Workers :
          /\ handled[w] = MaxRequests
          /\ counter2[w] = MaxRequests
          /\ responses[MaxRequests].worker = w
          /\ responses[MaxRequests].l = MaxRequests

(* C6: on a fresh server with requests issued one after the other, the     *)
(* first response reports 1/1/1; the second reports mutex 2 and atomic 2,  *)
(* and local 2 when the first request's worker serves it, local 1          *)
(* otherwise.                                                              *)
C6_FirstTwoResponses ==
    \A k \in 1..Len(responses) :
        /\ (responses[k].req = 1 /\ 1 \notin overlapped) =>
              /\ responses[k].m = 1
              /\ responses[k].l = 1
              /\ responses[k].a = 1
        /\ (responses[k].req = 2 /\ 2 \notin overlapped) =>
              /\ responses[k].m = 2
              /\ responses[k].a = 2
              /\ \E j \in 1..Len(responses) :
                    /\ responses[j].req = 1
                    /\ responses[k].l =
                          IF responses[j].worker = responses[k].worker
                          THEN 2 ELSE 1

(* Two sequential requests on different workers: the second reads 2/1/2.   *)
C6_Witness ==
    /\ Len(responses) >= 2
    /\ overlapped = {}
    /\ responses[1] = [req |-> 1, worker |-> responses[1].worker,
                       m |-> 1, l |-> 1, a |-> 1]
    /\ responses[2].req = 2
    /\ responses[2].worker # responses[1].worker
    /\ responses[2].m = 2 /\ responses[2].l = 1 /\ responses[2].a = 2

(* Requests of worker w that have not yet passed line 39.                  *)
BeforeSet2(w) == IF pc[w] \in {"lock1", "inc1", "set2"} THEN 1 ELSE 0

(* C7: a worker's thread-local counter changes only in that worker's own   *)
(* handler, by exactly 1 per request, leaving every other worker's counter *)
(* alone; it always equals the number of requests the worker has           *)
(* incremented it for.                                                     *)
C7_LocalOnlyOwnWorker ==
    /\ [](\A w \in Workers : counter2[w] = handled[w] - BeforeSet2(w))
    /\ [][\A w \in Workers :
             counter2'[w] # counter2[w] =>
                /\ pc[w] = "set2" /\ pc'[w] = "add3"
                /\ counter2'[w] = counter2[w] + 1
                /\ \A v \in Workers \ {w} :
                      counter2'[v] = counter2[v] /\ pc'[v] = pc[v]]_vars

(* Both workers have incremented, and their counters differ.               *)
C7_Witness ==
    /\ \A w \in Workers : counter2[w] >= 1
    /\ \E w, v \in Workers : counter2[w] # counter2[v]

(* C9: the mutex is not held between the increment of line 38 and the      *)
(* re-lock of line 44, and a response whose mutex and atomic values differ *)
(* comes only from a request that ran concurrently with another one.       *)
C9_NoCrossCounterAtomicity ==
    /\ \A w \in Workers :
          pc[w] \in {"set2", "add3", "lock2"} => holder # w
    /\ \A k \in 1..Len(responses) :
          responses[k].m # responses[k].a => responses[k].req \in overlapped

(* A response reporting a mutex value different from its atomic value.     *)
C9_Witness ==
    \E k \in 1..Len(responses) : responses[k].m # responses[k].a

(* C10: atomic counter <= sum of the thread-local counters <= mutex        *)
(* counter in every state, with equality when no request is in the         *)
(* handler.                                                                *)
C10_CounterOrdering ==
    /\ counter3 <= SumLocal(NumWorkers)
    /\ SumLocal(NumWorkers) <= counter1
    /\ Quiescent =>
          (counter3 = SumLocal(NumWorkers) /\ SumLocal(NumWorkers) = counter1)

(* All three quantities differ while two requests are part-way through.    *)
C10_Witness ==
    /\ counter3 < SumLocal(NumWorkers)
    /\ SumLocal(NumWorkers) < counter1

(* ========================== middleware example ========================= *)

Paths == {"/", "/hi"}
Payloads == 1..2
(* WebRequest<Err>: the path the middleware prints plus the rest of it.    *)
Requests == [path : Paths, payload : Payloads]
WebResponses == {"r1", "r2"}
Errors == {"e1", "e2"}
(* Result<WebResponse<B>, Error>                                           *)
Results == [ok : {TRUE}, val : WebResponses] \cup [ok : {FALSE}, val : Errors]
Pending == [ok |-> FALSE, val |-> "pending"]
(* Poll<Result<(), Error>>                                                 *)
PollResults ==
    {[tag |-> "Pending", err |-> "none"], [tag |-> "ReadyOk", err |-> "none"]}
        \cup [tag : {"ReadyErr"}, err : Errors]
NotPolled == [tag |-> "NotPolled", err |-> "none"]

(* The middleware is built by new_transform around `service`; nothing has  *)
(* been called or printed yet.                                             *)
MwInit ==
    /\ inv = <<>>
    /\ innerCalls = <<>>
    /\ log = <<>>
    /\ trace = <<>>
    /\ readiness = [inner |-> NotPolled, outer |-> NotPolled]

(* trace[i] lists, in order, the steps invocation i has taken so far.      *)

(* req.path() of line 62.                                                  *)
Path(req) == req.path

(* Variant: the start line without the path.                               *)
StartLine_NoPath(req) == [msg |-> "Hi from start. You requested: ", path |-> ""]

(* Line 62: the line printed before delegating.                            *)
StartLine(req) == [msg |-> "Hi from start. You requested: ", path |-> Path(req)]

(* Line 69.                                                                *)
ResponseLine == [msg |-> "Hi from response", path |-> ""]

(* Line 64: `req` is moved into self.service.call.                         *)
Forwarded(req) == req

(* Variant: every inner error mapped to one generic error.                 *)
TryErr_Generic(e) == [ok |-> FALSE, val |-> "e1"]

(* `?` of line 67 on Err(e): returns Err(From::from(e)); Error -> Error is *)
(* the reflexive conversion.                                               *)
TryErr(e) == [ok |-> FALSE, val |-> e]

(* Variant: a fresh default response instead of the inner one.             *)
OkRes_Default(res) == [ok |-> TRUE, val |-> "r1"]

(* Line 70: Ok(res).                                                       *)
OkRes(res) == [ok |-> TRUE, val |-> res]

(* SayHiMiddleware::call up to the construction of the boxed future: print *)
(* the start line, call the inner service, return the (unpolled) future.   *)
Call(req) ==
    /\ Len(inv) < MaxCalls
    /\ log' = Append(log, StartLine(req))
    /\ innerCalls' = Append(innerCalls,
                            [inv |-> Len(inv) + 1, req |-> Forwarded(req)])
    /\ inv' = Append(inv, [req |-> req, st |-> "awaiting",
                           inner |-> Pending, out |-> Pending])
    /\ trace' = Append(trace, <<"log_start", "inner_call">>)
    /\ UNCHANGED readiness

(* The inner service's future resolves to r.                               *)
InnerComplete(i, r) ==
    /\ i \in 1..Len(inv)
    /\ inv[i].st = "awaiting"
    /\ inv[i].inner = Pending
    /\ inv' = [inv EXCEPT ![i].inner = r]
    /\ trace' = [trace EXCEPT ![i] = Append(@, "inner_done")]
    /\ UNCHANGED <<innerCalls, log, readiness>>

(* The async block of lines 66-71 resumed after `fut.await` is ready.      *)
Resume(i) ==
    /\ i \in 1..Len(inv)
    /\ inv[i].st = "awaiting"
    /\ inv[i].inner # Pending
    /\ IF inv[i].inner.ok
       THEN /\ log' = Append(log, ResponseLine)
            /\ inv' = [inv EXCEPT ![i].st = "done",
                                  ![i].out = OkRes(inv[i].inner.val)]
            /\ trace' = [trace EXCEPT ![i] = @ \o <<"log_done", "return">>]
       ELSE /\ log' = log
            /\ inv' = [inv EXCEPT ![i].st = "done",
                                  ![i].out = TryErr(inv[i].inner.val)]
            /\ trace' = [trace EXCEPT ![i] = Append(@, "return")]
    /\ UNCHANGED <<innerCalls, readiness>>

(* Variant: always ready, whatever the inner service says.                 *)
poll_ready_AlwaysReady(innerPoll) == [tag |-> "ReadyOk", err |-> "none"]

(* SayHiMiddleware::poll_ready given what self.service.poll_ready returns. *)
poll_ready(innerPoll) == innerPoll

(* One poll: the inner service answers p.                                  *)
PollReady(p) ==
    /\ readiness' = [inner |-> p, outer |-> poll_ready(p)]
    /\ readiness' # readiness
    /\ UNCHANGED <<inv, innerCalls, log, trace>>

MwNext ==
    \/ \E req \in Requests : Call(req) /\ UNCHANGED stateVars
    \/ \E i \in 1..MaxCalls, r \in Results :
          InnerComplete(i, r) /\ UNCHANGED stateVars
    \/ \E i \in 1..MaxCalls : Resume(i) /\ UNCHANGED stateVars
    \/ \E p \in PollResults : PollReady(p) /\ UNCHANGED stateVars

(* ------------------------- claims: middleware -------------------------- *)

IsPrefix(s, t) == Len(s) <= Len(t) /\ \A k \in 1..Len(s) : s[k] = t[k]
Has(s, e) == \E k \in 1..Len(s) : s[k] = e
Done(i) == inv[i].st = "done"
CallsFor(i) == {k \in 1..Len(innerCalls) : innerCalls[k].inv = i}

StepsWithResponse ==
    <<"log_start", "inner_call", "inner_done", "log_done", "return">>
StepsWithError == <<"log_start", "inner_call", "inner_done", "return">>

RECURSIVE StartPaths(_)
(* The paths of the start lines of a log, in order.                        *)
StartPaths(l) ==
    IF l = <<>> THEN <<>>
    ELSE IF Head(l) = ResponseLine THEN StartPaths(Tail(l))
         ELSE <<Head(l).path>> \o StartPaths(Tail(l))

ResponseLines(l) == Cardinality({k \in 1..Len(l) : l[k] = ResponseLine})

(* C3: when the inner future resolves to a successful response, the        *)
(* middleware's future resolves to that same response, and the inner       *)
(* service was handed the very request the middleware received.            *)
C3_SuccessPassedThrough ==
    /\ Len(innerCalls) = Len(inv)
    /\ \A i \in 1..Len(inv) :
          /\ innerCalls[i].req = inv[i].req
          /\ (Done(i) /\ inv[i].inner.ok) => inv[i].out = inv[i].inner

(* A finished invocation that returned the response "r2" for a request     *)
(* with payload 2.                                                         *)
C3_Witness ==
    \E i \in 1..Len(inv) :
        /\ Done(i)
        /\ inv[i].req.payload = 2
        /\ inv[i].out = [ok |-> TRUE, val |-> "r2"]

(* C4: when the inner future resolves to an error, the middleware's future *)
(* resolves to exactly that error, and the inner service was called        *)
(* exactly once for the invocation.                                        *)
C4_ErrorPropagatedOnce ==
    \A i \in 1..Len(inv) :
        (Done(i) /\ ~inv[i].inner.ok) =>
            /\ inv[i].out = inv[i].inner
            /\ Cardinality(CallsFor(i)) = 1

(* A finished invocation that returned the error "e2".                     *)
C4_Witness ==
    \E i \in 1..Len(inv) :
        /\ Done(i)
        /\ inv[i].inner = [ok |-> FALSE, val |-> "e2"]
        /\ inv[i].out = [ok |-> FALSE, val |-> "e2"]

(* C5 as stated: start line, inner call, inner completion, completion      *)
(* line, return, in this order, the completion line being printed on every *)
(* invocation whose inner handler completed, errors included.              *)
C5_CompletionAlwaysLogged ==
    \A i \in 1..Len(inv) :
        /\ IsPrefix(trace[i], StepsWithResponse)
        /\ Done(i) => Has(trace[i], "log_done")

(* C5 amended: the start line with the request path is printed, then the   *)
(* inner handler is called and awaited; on a successful result the         *)
(* completion line is printed and the result returned; on an error the     *)
(* error is returned and no completion line is printed.                    *)
C5_OrderOfSteps ==
    /\ Len(trace) = Len(inv)
    /\ StartPaths(log) = [i \in 1..Len(inv) |-> inv[i].req.path]
    /\ ResponseLines(log) =
          Cardinality({i \in 1..Len(inv) : Has(trace[i], "log_done")})
    /\ \A i \in 1..Len(inv) :
          /\ \/ IsPrefix(trace[i], StepsWithResponse)
             \/ IsPrefix(trace[i], StepsWithError)
          /\ Done(i) <=> Has(trace[i], "return")
          /\ Done(i) => (inv[i].inner.ok <=> Has(trace[i], "log_done"))
          /\ Has(trace[i], "log_done") => inv[i].inner.ok

(* One invocation finished with a response and one with an error: one      *)
(* completion line for two start lines.                                    *)
C5_Witness ==
    /\ \E i, j \in 1..Len(inv) :
          /\ Done(i) /\ inv[i].out.ok
          /\ Done(j) /\ ~inv[j].out.ok
    /\ ResponseLines(log) < Len(StartPaths(log))

(* C8: poll_ready returns exactly what the inner service's poll_ready      *)
(* returned for that poll, and polling changes nothing else of the         *)
(* middleware.                                                             *)
C8_ReadinessForwarded ==
    /\ [](readiness.outer = readiness.inner)
    /\ [][readiness' # readiness =>
             UNCHANGED <<inv, innerCalls, log, trace>>]_vars

(* A poll answered Ready(Err(e2)) while a call is in flight.               *)
C8_Witness ==
    /\ readiness.inner = [tag |-> "ReadyErr", err |-> "e2"]
    /\ readiness.outer = [tag |-> "ReadyErr", err |-> "e2"]
    /\ \E i \in 1..Len(inv) : inv[i].st = "awaiting"

(* Both programs freshly started.                                          *)
Init == StateInit /\ MwInit

StateSpec == Init /\ [][StateNext]_vars
MwSpec == Init /\ [][MwNext]_vars
====
